---- MODULE Spec2Model ----
(***************************************************************************)
(* Model of the bash loadable builtin "counter" (custom_builtin/counter.c) *)
(* and of the substituted input reader jobu_get/jobu_unget.                *)
(*                                                                         *)
(* A word is a sequence of one-character strings, and a WORD_LIST is     *)
(* a sequence of words.  The C type long is scaled down to LongBits bits.  *)
(***************************************************************************)
EXTENDS Integers, Sequences, FiniteSets

-----------------------------------------------------------------------------
(* Bounds of the model *)

\* number of bits of the C type long in the model
LongBits == 3
\* longest argument word drawn for a command
MaxLen == 2
\* longest WORD_LIST handed to counter_builtin
MaxArgs == 3
\* number of jobu_get calls followed
MaxGot == 46
\* number of jobu_unget calls followed
MaxUnget == 1
\* number of failed allocations followed
MaxFail == 1

RECURSIVE Pow2(_)
Pow2(n) == IF n = 0 THEN 1 ELSE 2 * Pow2(n - 1)

LONG_MAX == Pow2(LongBits - 1) - 1
LONG_MIN == -Pow2(LongBits - 1)
LongRange == LONG_MIN..LONG_MAX

EXECUTION_SUCCESS == 0
EXECUTION_FAILURE == 1

-----------------------------------------------------------------------------
(* Words *)

Alphabet == {" ", "+", "-", "1", "3", "a"}

RECURSIVE WordsUpTo(_)
WordsUpTo(n) ==
  IF n = 0 THEN {<<>>}
  ELSE LET S == WordsUpTo(n - 1)
       IN  S \cup {Append(s, c) : s \in {t \in S : Len(t) = n - 1}, c \in Alphabet}

Words == WordsUpTo(MaxLen)

W_setinput  == <<"s","e","t","i","n","p","u","t">>
W_inc       == <<"i","n","c">>
W_increment == <<"i","n","c","r","e","m","e","n","t">>
W_dec       == <<"d","e","c">>
W_decrement == <<"d","e","c","r","e","m","e","n","t">>
W_set       == <<"s","e","t">>
W_reset     == <<"r","e","s","e","t">>
W_get       == <<"g","e","t">>

OpNames == {W_setinput, W_inc, W_increment, W_dec, W_decrement, W_set, W_reset, W_get}

\* words appended after the ones an operation looks at
Extras == {<<"a">>, <<"1">>}

RECURSIVE ExtraLists(_)
ExtraLists(n) ==
  IF n <= 0 THEN {<<>>}
  ELSE LET S == ExtraLists(n - 1)
       IN  S \cup {Append(s, e) : s \in {t \in S : Len(t) = n - 1}, e \in Extras}

\* the WORD_LISTs the host hands to the builtin (<<>> is list == 0)
Lists ==
  {<<>>}
  \cup {<<f>> \o r : f \in OpNames \cup Words, r \in ExtraLists(MaxArgs - 1)}
  \cup {<<f, a>> \o r : f \in OpNames, a \in Words, r \in ExtraLists(MaxArgs - 2)}

-----------------------------------------------------------------------------
(* strtol(str, &endptr, 10) *)

IsSpace(c) == c \in {" ", "\t", "\n", "\r", "\f"}

IsDigit(c) == c \in {"0", "1", "2", "3", "4", "5", "6", "7", "8", "9"}

DigitVal(c) ==
  CASE c = "0" -> 0 [] c = "1" -> 1 [] c = "2" -> 2 [] c = "3" -> 3 [] c = "4" -> 4
    [] c = "5" -> 5 [] c = "6" -> 6 [] c = "7" -> 7 [] c = "8" -> 8 [] c = "9" -> 9

\* first position at or after i that holds no white space
RECURSIVE SkipSpace(_, _)
SkipSpace(str, i) ==
  IF i <= Len(str) /\ IsSpace(str[i]) THEN SkipSpace(str, i + 1) ELSE i

\* first position at or after i that holds no digit
RECURSIVE DigitsEnd(_, _)
DigitsEnd(str, i) ==
  IF i <= Len(str) /\ IsDigit(str[i]) THEN DigitsEnd(str, i + 1) ELSE i

\* the number the digits str[i..j-1] denote, as a mathematical integer
RECURSIVE DigitsValue(_, _, _)
DigitsValue(str, i, j) ==
  IF j <= i THEN 0 ELSE 10 * DigitsValue(str, i, j - 1) + DigitVal(str[j - 1])

\* val: the returned long; endptr: position of the first character not
\* consumed (Len(str)+1 is the terminating NUL); erange: errno == ERANGE;
\* exact: the integer the consumed text denotes
strtol(str) ==
  LET s == SkipSpace(str, 1)
      signed == s <= Len(str) /\ str[s] \in {"+", "-"}
      neg == signed /\ str[s] = "-"
      d == IF signed THEN s + 1 ELSE s
      e == DigitsEnd(str, d)
      mag == DigitsValue(str, d, e)
      exact == IF neg THEN -mag ELSE mag
  IN  IF e = d
        THEN [val |-> 0, endptr |-> 1, erange |-> FALSE, exact |-> 0]
        ELSE [val |-> IF exact > LONG_MAX THEN LONG_MAX
                      ELSE IF exact < LONG_MIN THEN LONG_MIN ELSE exact,
              endptr |-> e,
              erange |-> exact \notin LongRange,
              exact |-> exact]

-----------------------------------------------------------------------------
(* parse_number *)

E_numeric == "numeric argument required"
E_set     == "set: numeric argument required"
E_invalid == "invalid operation (use: inc, dec, set, reset, or get)"

parse_number_partial(str) ==
  IF str = <<>>
    THEN [ok |-> FALSE, val |-> 0, err |-> <<>>, erange |-> FALSE]
    ELSE LET r == strtol(str)
         IN  [ok |-> TRUE, val |-> r.val, err |-> <<>>, erange |-> r.erange]

\* ok: the return value; val: *result when ok; err: what builtin_error wrote
parse_number(str) ==
  IF str = <<>>
    THEN [ok |-> FALSE, val |-> 0, err |-> <<>>, erange |-> FALSE]
    ELSE LET r == strtol(str)
         IN  IF r.endptr # Len(str) + 1
               THEN [ok |-> FALSE, val |-> 0, err |-> <<E_numeric>>, erange |-> r.erange]
               ELSE [ok |-> TRUE, val |-> r.val, err |-> <<>>, erange |-> r.erange]

-----------------------------------------------------------------------------
(* counter_builtin: what one call does to counter_value and the channels *)

\* printf("%ld\n", v) and printf("Input set to jobu\n") on standard output
PrintValue(v) == [fmt |-> "%ld\n", arg |-> v]
PrintInputSet == [fmt |-> "Input set to jobu\n", arg |-> 0]

\* the state a call leaves: exit status, counter_value, standard output, the
\* error channel, whether a signed overflow was executed, whether strtol
\* reported ERANGE for an accepted argument, and the input getter installed
Result(st, v, o, e, u, r, io) ==
  [status |-> st, value |-> v, out |-> o, err |-> e, ub |-> u, erange |-> r, yy_io |-> io]

\* long arithmetic a + b: the sum when it fits; a signed overflow is
\* undefined behaviour, so any long may be what is stored
LongAdd(a, b) ==
  IF a + b \in LongRange
    THEN {[value |-> a + b, ub |-> FALSE]}
    ELSE {[value |-> x, ub |-> TRUE] : x \in LongRange}

LongSub(a, b) ==
  IF a - b \in LongRange
    THEN {[value |-> a - b, ub |-> FALSE]}
    ELSE {[value |-> x, ub |-> TRUE] : x \in LongRange}

\* if (list == 0): display the current count
Query(list, cv) ==
  {Result(EXECUTION_SUCCESS, cv, <<PrintValue(cv)>>, <<>>, FALSE, FALSE, "same")}

\* operation "setinput": install jobu_get/jobu_unget as the input reader
SetInput(list, cv) ==
  {Result(EXECUTION_SUCCESS, cv, <<PrintInputSet>>, <<>>, FALSE, FALSE, "jobu")}

Increment_early(list, cv) ==
  LET p == IF Len(list) > 1 THEN parse_number(list[2])
           ELSE [ok |-> TRUE, val |-> 1, err |-> <<>>, erange |-> FALSE]
  IN  IF ~p.ok
        THEN {Result(EXECUTION_FAILURE, s.value, <<>>, p.err, s.ub, FALSE, "same")
                : s \in LongAdd(cv, 1)}
        ELSE {Result(EXECUTION_SUCCESS, s.value, <<PrintValue(s.value)>>, <<>>,
                     s.ub, p.erange, "same") : s \in LongAdd(cv, p.val)}

\* operation "inc" / "increment"
Increment(list, cv) ==
  LET p == IF Len(list) > 1 THEN parse_number(list[2])
           ELSE [ok |-> TRUE, val |-> 1, err |-> <<>>, erange |-> FALSE]
  IN  IF ~p.ok
        THEN {Result(EXECUTION_FAILURE, cv, <<>>, p.err, FALSE, FALSE, "same")}
        ELSE {Result(EXECUTION_SUCCESS, s.value, <<PrintValue(s.value)>>, <<>>,
                     s.ub, p.erange, "same") : s \in LongAdd(cv, p.val)}

\* operation "dec" / "decrement"
Decrement(list, cv) ==
  LET p == IF Len(list) > 1 THEN parse_number(list[2])
           ELSE [ok |-> TRUE, val |-> 1, err |-> <<>>, erange |-> FALSE]
  IN  IF ~p.ok
        THEN {Result(EXECUTION_FAILURE, cv, <<>>, p.err, FALSE, FALSE, "same")}
        ELSE {Result(EXECUTION_SUCCESS, s.value, <<PrintValue(s.value)>>, <<>>,
                     s.ub, p.erange, "same") : s \in LongSub(cv, p.val)}

\* operation "set"
SetValue(list, cv) ==
  IF Len(list) < 2
    THEN {Result(EXECUTION_FAILURE, cv, <<>>, <<E_set>>, FALSE, FALSE, "same")}
    ELSE LET p == parse_number(list[2])
         IN  IF ~p.ok
               THEN {Result(EXECUTION_FAILURE, cv, <<>>, p.err, FALSE, FALSE, "same")}
               ELSE {Result(EXECUTION_SUCCESS, p.val, <<PrintValue(p.val)>>, <<>>,
                            FALSE, p.erange, "same")}

Reset_strict(list, cv) ==
  IF Len(list) > 1
    THEN {Result(EXECUTION_FAILURE, cv, <<>>, <<E_invalid>>, FALSE, FALSE, "same")}
    ELSE {Result(EXECUTION_SUCCESS, 0, <<PrintValue(0)>>, <<>>, FALSE, FALSE, "same")}

\* operation "reset"
Reset(list, cv) ==
  {Result(EXECUTION_SUCCESS, 0, <<PrintValue(0)>>, <<>>, FALSE, FALSE, "same")}

\* operation "get"
Get(list, cv) ==
  {Result(EXECUTION_SUCCESS, cv, <<PrintValue(cv)>>, <<>>, FALSE, FALSE, "same")}

DirectSet_lenient(list, cv) ==
  LET p == parse_number(list[1])
  IN  IF ~p.ok
        THEN {Result(EXECUTION_SUCCESS, cv, <<PrintValue(cv)>>, p.err, FALSE, FALSE, "same")}
        ELSE {Result(EXECUTION_SUCCESS, p.val, <<PrintValue(p.val)>>, <<>>,
                     FALSE, p.erange, "same")}

DirectSet_adds(list, cv) ==
  LET p == parse_number(list[1])
  IN  IF ~p.ok
        THEN {Result(EXECUTION_FAILURE, cv, <<>>, Append(p.err, E_invalid),
                     FALSE, FALSE, "same")}
        ELSE {Result(EXECUTION_SUCCESS, s.value, <<PrintValue(s.value)>>, <<>>,
                     s.ub, p.erange, "same") : s \in LongAdd(cv, p.val)}

\* any other operation: try to parse it as a direct set
DirectSet(list, cv) ==
  LET p == parse_number(list[1])
  IN  IF ~p.ok
        THEN {Result(EXECUTION_FAILURE, cv, <<>>, Append(p.err, E_invalid),
                     FALSE, FALSE, "same")}
        ELSE {Result(EXECUTION_SUCCESS, p.val, <<PrintValue(p.val)>>, <<>>,
                     FALSE, p.erange, "same")}

\* the outcomes of counter_builtin(list) called with counter_value = cv
counter_builtin(list, cv) ==
  IF list = <<>> THEN Query(list, cv)
  ELSE LET operation == list[1]
       IN  IF operation = W_setinput THEN SetInput(list, cv)
           ELSE IF operation = W_inc \/ operation = W_increment THEN Increment(list, cv)
           ELSE IF operation = W_dec \/ operation = W_decrement THEN Decrement(list, cv)
           ELSE IF operation = W_set THEN SetValue(list, cv)
           ELSE IF operation = W_reset THEN Reset(list, cv)
           ELSE IF operation = W_get THEN Get(list, cv)
           ELSE DirectSet(list, cv)

-----------------------------------------------------------------------------
(* jobu_get / jobu_unget: the substituted input reader *)

EOF == "EOF"
NUL == "NUL"
\* the null pointer; an allocated buffer holds at least its terminating NUL
NULL == <<>>

\* input_str
JobuInput ==
  <<"e","c","h","o"," ","h","e","l","l","o"," ","&","&"," ","s","l","e","e","p"," ","1">>

\* the buffer jobu_get builds: input_str, '\n', '\0'
JobuBuffer == JobuInput \o <<"\n", NUL>>

\* the line the reader is to deliver: input_str and the newline
JobuLine == JobuInput \o <<"\n">>

jobu_get_once(line, index, malloc_ok) ==
  IF line = NULL /\ ~malloc_ok
    THEN [line |-> NULL, index |-> index, ret |-> EOF, prompts |-> 1, failed |-> 1]
    ELSE LET fresh == line = NULL
             buf == IF fresh THEN JobuBuffer ELSE line
             idx == IF fresh THEN 0 ELSE index
             pr  == IF fresh THEN 1 ELSE 0
         IN  IF buf[idx + 1] = NUL
               THEN [line |-> buf, index |-> idx, ret |-> EOF, prompts |-> pr, failed |-> 0]
               ELSE [line |-> buf, index |-> idx + 1, ret |-> buf[idx + 1],
                     prompts |-> pr, failed |-> 0]

\* one call of jobu_get() with current_jobu_line = line and
\* current_jobu_line_index = index; malloc_ok: whether malloc returns memory.
\* ret: the returned character or EOF; prompts: times the prompt was printed;
\* failed: 1 when the allocation failed
RECURSIVE jobu_get(_, _, _)
jobu_get(line, index, malloc_ok) ==
  IF line = NULL /\ ~malloc_ok
    THEN [line |-> NULL, index |-> index, ret |-> EOF, prompts |-> 1, failed |-> 1]
    ELSE LET fresh == line = NULL
             buf == IF fresh THEN JobuBuffer ELSE line
             idx == IF fresh THEN 0 ELSE index
             pr  == IF fresh THEN 1 ELSE 0
         IN  IF buf[idx + 1] = NUL
               THEN LET r == jobu_get(NULL, idx, malloc_ok)
                    IN  [r EXCEPT !.prompts = r.prompts + pr]
               ELSE [line |-> buf, index |-> idx + 1, ret |-> buf[idx + 1],
                     prompts |-> pr, failed |-> 0]

\* jobu_unget(c): the state it leaves
jobu_unget(line, index, c) ==
  IF index # 0 /\ line # NULL
    THEN [line |-> [line EXCEPT ![index] = c], index |-> index - 1]
    ELSE [line |-> line, index |-> index]

\* characters the host pushes back
UngetChars == {"e", "#"}

-----------------------------------------------------------------------------
(* The state machine *)

VARIABLES
  counter_value,            \* static long counter_value
  pc,                       \* "idle", "called" (counter_builtin entered), "returned"
  list,                     \* the WORD_LIST of the call
  prev,                     \* counter_value when the call was entered
  status,                   \* the exit status of the last call
  out,                      \* what the call wrote to standard output
  err,                      \* what the call wrote through builtin_error
  ub,                       \* the call executed a signed overflow
  erange,                   \* the call accepted a number strtol clamped
  getter,                   \* bash_input's getter: "stdin" or "jobu"
  before,                   \* the call before this one (round-trip runs)
  current_jobu_line,
  current_jobu_line_index,
  got,                      \* what the jobu_get calls returned, in order
  ungets,                   \* number of jobu_unget calls
  prompts,                  \* times "my prompt here>" was printed
  failed                    \* number of failed allocations

vars == <<counter_value, pc, list, prev, status, out, err, ub, erange, getter, before,
          current_jobu_line, current_jobu_line_index, got, ungets, prompts, failed>>

counterVars == <<counter_value, prev, status, out, err, ub, erange>>
jobuVars == <<current_jobu_line, current_jobu_line_index, got, ungets, prompts, failed>>

\* after counter_builtin_load: the counter is 0, nothing was read
Init ==
  /\ counter_value = 0
  /\ pc = "idle"
  /\ list = <<>>
  /\ prev = 0
  /\ status = EXECUTION_SUCCESS
  /\ out = <<>>
  /\ err = <<>>
  /\ ub = FALSE
  /\ erange = FALSE
  /\ getter = "stdin"
  /\ before = <<>>
  /\ current_jobu_line = NULL
  /\ current_jobu_line_index = 0
  /\ got = <<>>
  /\ ungets = 0
  /\ prompts = 0
  /\ failed = 0

\* the host calls counter_builtin with the words of a command
Enter(l) ==
  /\ pc = "idle"
  /\ pc' = "called"
  /\ list' = l
  /\ UNCHANGED <<counterVars, getter, before, jobuVars>>

Invoke == pc = "idle" /\ \E l \in Lists : Enter(l)

\* the body of counter_builtin, to its return
RunBuiltin ==
  /\ pc = "called"
  /\ \E r \in counter_builtin(list, counter_value) :
       /\ counter_value' = r.value
       /\ status' = r.status
       /\ out' = r.out
       /\ err' = r.err
       /\ ub' = r.ub
       /\ erange' = r.erange
       /\ getter' = IF r.yy_io = "jobu" THEN "jobu" ELSE getter
  /\ prev' = counter_value
  /\ pc' = "returned"
  /\ UNCHANGED <<list, before, jobuVars>>

\* the host takes the status and the output; the next command can come
Leave(b) ==
  /\ pc = "returned"
  /\ pc' = "idle"
  /\ list' = <<>>
  /\ prev' = counter_value
  /\ out' = <<>>
  /\ err' = <<>>
  /\ ub' = FALSE
  /\ erange' = FALSE
  /\ before' = b
  /\ UNCHANGED <<counter_value, status, getter, jobuVars>>

Return == Leave(<<>>)

Next == Invoke \/ RunBuiltin \/ Return

Spec == Init /\ [][Next]_vars

-----------------------------------------------------------------------------
(* Runs of inc, dec and set that remember the call before the current one *)

PairLists ==
  {<<f>> : f \in {W_inc, W_dec}}
  \cup {<<f, a>> : f \in {W_inc, W_dec, W_set}, a \in Words}

InvokePair == pc = "idle" /\ \E l \in PairLists : Enter(l)

ReturnPair == Leave(<<[list |-> list, prev |-> prev, status |-> status]>>)

NextPair == InvokePair \/ RunBuiltin \/ ReturnPair

SpecPair == Init /\ [][NextPair]_vars

-----------------------------------------------------------------------------
(* Runs in which setinput installs the reader and the host reads from it *)

\* setinput is followed until the reader is installed
InvokeSetInput == getter = "stdin" /\ Enter(<<W_setinput>>)

\* the host reads a character through bash_input's getter
JobuGet ==
  /\ pc = "idle"
  /\ getter = "jobu"
  /\ Len(got) < MaxGot
  /\ \E malloc_ok \in (IF failed < MaxFail THEN BOOLEAN ELSE {TRUE}) :
       LET r == jobu_get(current_jobu_line, current_jobu_line_index, malloc_ok)
       IN  /\ current_jobu_line' = r.line
           /\ current_jobu_line_index' = r.index
           /\ got' = Append(got, r.ret)
           /\ prompts' = prompts + r.prompts
           /\ failed' = failed + r.failed
  /\ UNCHANGED <<counterVars, pc, list, getter, before, ungets>>

\* the host pushes a character back through bash_input's ungetter
JobuUnget ==
  /\ pc = "idle"
  /\ getter = "jobu"
  /\ ungets < MaxUnget
  /\ \E c \in UngetChars :
       LET r == jobu_unget(current_jobu_line, current_jobu_line_index, c)
       IN  /\ current_jobu_line' = r.line
           /\ current_jobu_line_index' = r.index
  /\ ungets' = ungets + 1
  /\ UNCHANGED <<counterVars, pc, list, getter, before, got, prompts, failed>>

NextJobu == InvokeSetInput \/ RunBuiltin \/ Return \/ JobuGet \/ JobuUnget

SpecJobu == Init /\ [][NextJobu]_vars

-----------------------------------------------------------------------------
(* The claims *)

Returned == pc = "returned"
Succeeded == Returned /\ status = EXECUTION_SUCCESS
Failed == Returned /\ status = EXECUTION_FAILURE

IncNames == {W_inc, W_increment}
DecNames == {W_dec, W_decrement}
DocumentedNames == {W_inc, W_increment, W_dec, W_decrement, W_set, W_reset, W_get}

\* the integer an accepted argument denotes
Denotes(str) == strtol(str).exact

\* the reference counter over the mathematical integers
Reference(l, v) ==
  IF l = <<>> THEN v
  ELSE IF l[1] \in IncNames THEN v + (IF Len(l) > 1 THEN Denotes(l[2]) ELSE 1)
  ELSE IF l[1] \in DecNames THEN v - (IF Len(l) > 1 THEN Denotes(l[2]) ELSE 1)
  ELSE IF l[1] = W_set THEN Denotes(l[2])
  ELSE IF l[1] = W_reset THEN 0
  ELSE v

\* C1: after every successful inc, dec, set, reset, get or bare query the
\* stored value is the one the reference counter has: the value before the
\* call plus n (plus 1 without argument), minus n (minus 1), n, 0, or the
\* value before the call.
C1_MatchesReference ==
  (Succeeded /\ (list = <<>> \/ list[1] \in DocumentedNames))
    => counter_value = Reference(list, prev)

\* C2: a call that returns failure leaves counter_value as it was when the
\* call was entered.
C2_FailureKeepsValue == Failed => counter_value = prev

C2_Witness ==
  /\ Failed
  /\ prev # 0
  /\ list[1] \in IncNames
  /\ Len(list) > 1

\* C3: a call ends either with success and exactly the counter value on
\* standard output, or with failure, a diagnostic on the error channel and
\* nothing on standard output.
C3_ExactlyOneOutcome ==
  Returned =>
    \/ status = EXECUTION_SUCCESS /\ out = <<PrintValue(counter_value)>> /\ err = <<>>
    \/ status = EXECUTION_FAILURE /\ out = <<>> /\ err # <<>>

\* a character other than a digit, not counting one leading sign
HasNonDigit(str) ==
  \E i \in 1..Len(str) : ~IsDigit(str[i]) /\ ~(i = 1 /\ str[i] \in {"+", "-"})

\* a character that is neither a digit, nor leading white space, nor one
\* sign right after the leading white space
Malformed(str) ==
  \E i \in 1..Len(str) :
    /\ ~IsDigit(str[i])
    /\ ~(IsSpace(str[i]) /\ \A j \in 1..(i - 1) : IsSpace(str[j]))
    /\ ~(str[i] \in {"+", "-"} /\ \A j \in 1..(i - 1) : IsSpace(str[j]))

TakesNumber == Returned /\ Len(list) > 1 /\ list[1] \in IncNames \cup DecNames \cup {W_set}

RejectedAsInvalid ==
  status = EXECUTION_FAILURE /\ counter_value = prev /\ err = <<E_numeric>>

\* C4 as stated: inc s, dec s and set s fail with the invalid-argument
\* diagnostic and leave the value unchanged for every s holding a character
\* other than digits, apart from one optional leading sign.
C4_NonDigitRejected ==
  (TakesNumber /\ HasNonDigit(list[2])) => RejectedAsInvalid

\* C4 as amended: inc s, dec s and set s fail with the invalid-argument
\* diagnostic and leave the value unchanged for every s holding a character
\* that is neither a digit, nor leading white space, nor one sign right
\* after the leading white space.
C4_MalformedRejected ==
  (TakesNumber /\ Malformed(list[2])) => RejectedAsInvalid

C4_Witness ==
  /\ TakesNumber
  /\ list[2] = <<"1", "a">>
  /\ prev # 0
  /\ status = EXECUTION_FAILURE

\* optional sign, then one or more digits
IsIntegerLiteral(str) ==
  /\ ~HasNonDigit(str)
  /\ \E i \in 1..Len(str) : IsDigit(str[i])

\* what parse_number takes: white space, optional sign, one or more digits
IsAcceptedNumber(str) ==
  /\ ~Malformed(str)
  /\ \E i \in 1..Len(str) : IsDigit(str[i])

Alone == Returned /\ Len(list) = 1

\* C5 as stated: a first token alone that is no integer literal and none of
\* inc, increment, dec, decrement, set, reset, get returns failure and leaves
\* the value unchanged.
C5_UndocumentedFails ==
  (Alone /\ list[1] \notin DocumentedNames /\ ~IsIntegerLiteral(list[1]))
    => (status = EXECUTION_FAILURE /\ counter_value = prev)

\* C5 as amended: a first token alone that is none of the names the
\* dispatcher compares with (setinput, inc, increment, dec, decrement, set,
\* reset, get) and is not white space, optional sign and digits returns
\* failure and leaves the value unchanged.
C5_UnknownFails ==
  (Alone /\ list[1] \notin OpNames /\ ~IsAcceptedNumber(list[1]))
    => (status = EXECUTION_FAILURE /\ counter_value = prev)

C5_Witness ==
  /\ Alone
  /\ list[1] = <<"a">>
  /\ prev # 0
  /\ status = EXECUTION_FAILURE

\* what a caller observes of a call
Observed == [status |-> status, value |-> counter_value, out |-> out]
Observations(S) == {[status |-> r.status, value |-> r.value, out |-> r.out] : r \in S}

\* C6 as stated: for every token t, the bare command t ends as set t does
\* from the same value: same status, same stored value, same printed value.
C6_BareIsSet ==
  Alone => Observed \in Observations(counter_builtin(<<W_set, list[1]>>, prev))

\* C6 as amended: for every token t that is not an operation name the
\* dispatcher recognises, the bare command t ends as set t does from the
\* same value: same status, same stored value, same printed value.
C6_BareNonNameIsSet ==
  (Alone /\ list[1] \notin OpNames)
    => Observed \in Observations(counter_builtin(<<W_set, list[1]>>, prev))

C6_Witness ==
  /\ Alone
  /\ list[1] = <<"-", "1">>
  /\ prev = 3
  /\ counter_value = -1
  /\ status = EXECUTION_SUCCESS

\* C7: no call executes a long addition or subtraction whose result is
\* outside [LONG_MIN, LONG_MAX], and no accepted argument is stored as a
\* value other than the integer it denotes.
C7_NoOverflow == Returned => (~ub /\ ~erange)

\* C8: inc n followed at once by dec n (both successful, same argument or
\* both without argument) returns the counter to the value before the inc.
C8_IncDecInverse ==
  ( /\ Succeeded
    /\ before # <<>>
    /\ list[1] \in DecNames
    /\ before[1].status = EXECUTION_SUCCESS
    /\ before[1].list[1] \in IncNames
    /\ Tail(before[1].list) = Tail(list) )
    => counter_value = before[1].prev

CleanReads == ungets = 0 /\ failed = 0

\* C9 as stated: the line is returned once, in order, and every later call
\* returns no character of it.
C9_DeliveredOnce ==
  CleanReads =>
    \A i \in 1..Len(got) :
      IF i <= Len(JobuLine) THEN got[i] = JobuLine[i] ELSE got[i] = EOF

\* C9 as amended: the line is returned over and over: with no pushed-back
\* character and no failed allocation, the k-th call of jobu_get returns
\* character ((k - 1) mod 22) + 1 of the line, and the prompt was printed
\* once for each started delivery.
C9_Replayed ==
  CleanReads =>
    /\ \A i \in 1..Len(got) : got[i] = JobuLine[((i - 1) % Len(JobuLine)) + 1]
    /\ prompts = (Len(got) + Len(JobuLine) - 1) \div Len(JobuLine)

C9_Witness ==
  /\ CleanReads
  /\ Len(got) = 2 * Len(JobuLine)
  /\ prompts = 2

\* the words an operation looks at
Consumed(l) ==
  IF l = <<>> THEN 0
  ELSE IF l[1] \in IncNames \cup DecNames \cup {W_set} THEN 2 ELSE 1

\* C10: words after the ones an operation looks at change nothing: the call
\* ends with the status, stored value and output of the call without them.
C10_ExtrasIgnored ==
  (Returned /\ Len(list) > Consumed(list))
    => Observed \in
         Observations(counter_builtin(SubSeq(list, 1, Consumed(list)), prev))

C10_Witness ==
  /\ Succeeded
  /\ list = <<W_reset, <<"a">>>>
  /\ prev # 0
  /\ counter_value = 0

====
